---- MODULE Spec2Model ----
(***************************************************************************)
(* The merge-and-correlate engine of post-processing/fuzz_data_loader.py:  *)
(* FuzzerProfile.accummulate_profile, MergedProjectProfile.__init__ and    *)
(* add_func_to_reached_and_clone, over a heap of Python objects (Spec),    *)
(* and accummulate_profile of both FuzzerProfile classes, that of          *)
(* datatypes/fuzzer_profile.py included, method by method (SpecAccumulate).*)
(* Further specifications run one part each on the same variables: two     *)
(* clones of one merged profile in both orders (SpecCommute), the coverage *)
(* queries of a profile (SpecCoverage), the parse of the call tree of a    *)
(* .data file and the file targets read off it (SpecCalltree), and         *)
(* load_all_profiles over the data files of a folder (SpecLoad).           *)
(*                                                                         *)
(* Python objects have identity.  A function record (one dict of the       *)
(* plugin's 'All functions'/'Elements' list) is an index into fds, a       *)
(* FuzzerProfile an index into profiles, a MergedProjectProfile an index   *)
(* into merged; a list of objects is a sequence of indices, so two lists   *)
(* holding the same dict hold the same index.  A dict is a function from   *)
(* its keys to its values: a key that was never set is not in its DOMAIN.  *)
(* A str is the sequence of its pieces, cut where the substrings the code  *)
(* looks for begin and end, so that s in t is a test on sequences.         *)
(***************************************************************************)
EXTENDS Integers, Sequences, FiniteSets, TLC

VARIABLES fds, profiles, merged, calls

vars == <<fds, profiles, merged, calls>>

(***************************************************************************)
(* Bounds of the model.                                                    *)
(***************************************************************************)
\* CyclomaticComplexity of an input record ranges over 1..MaxCC
MaxCC == 2
\* MergedProjectProfile is called with lists of at most MaxListLen distinct profiles
MaxListLen == 2
\* at most MaxMerged MergedProjectProfile objects are ever created
MaxMerged == 3

(***************************************************************************)
(* Python values.                                                          *)
(***************************************************************************)
None == <<>>

Some(x) == <<x>>

Range(s) == {s[i] : i \in DOMAIN s}

\* d[k] = v on a dict
Put(d, k, v) == [x \in (DOMAIN d) \cup {k} |-> IF x = k THEN v ELSE d[x]]

\* sub in s, for two str
Contains(s, sub) ==
    \E i \in 0..(Len(s) - Len(sub)) : SubSeq(s, i + 1, i + Len(sub)) = sub

\* x in l, for a list l
In(x, l) == \E i \in DOMAIN l : l[i] = x

\* the lists of at most n distinct elements of S
ListsUpTo(S, n) ==
    {l \in UNION {[1..k -> S] : k \in 0..n} :
        \A i, j \in DOMAIN l : i # j => l[i] # l[j]}

RECURSIVE SumOver(_, _)
\* sum(f[x] for x in S)
SumOver(f, S) ==
    IF S = {} THEN 0
    ELSE LET x == CHOOSE y \in S : TRUE IN f[x] + SumOver(f, S \ {x})

\* the elements of the set S of integers, ascending
RECURSIVE Ascending(_)
Ascending(S) ==
    IF S = {} THEN <<>>
    ELSE LET x == CHOOSE y \in S : \A z \in S : y <= z
         IN <<x>> \o Ascending(S \ {x})

(***************************************************************************)
(* Function names.                                                         *)
(***************************************************************************)
LLVMFuzzerTestOneInput == <<"LLVMFuzzer", "TestOneInput">>

foo == <<"foo">>

bar == <<"bar">>

sanitizer_cov == <<"__", "sanitizer", "_cov">>

llvm_memcpy == <<"llvm", ".memcpy">>

\* the substrings line 249-250 look for
sanitizer == <<"sanitizer">>

llvm == <<"llvm">>

(***************************************************************************)
(* Input: the plugin's output for the fuzzers of one project.  Every       *)
(* fuzzer's 'All functions'/'Elements' list holds the record of its        *)
(* entrypoint and the record of one other function.                        *)
(***************************************************************************)
NumProfiles == 2

FunctionRecord(name, cc, reached) ==
    [functionName |-> name, CyclomaticComplexity |-> cc, BBCount |-> 1,
     functionsReached |-> reached]

EntryRecords ==
    {FunctionRecord(LLVMFuzzerTestOneInput, 8, r) :
        r \in {<<>>, <<foo>>, <<bar, sanitizer_cov>>}}

BodyRecords ==
    {FunctionRecord(foo, c, <<bar>>) : c \in 1..MaxCC}
        \cup {FunctionRecord(bar, 4, <<bar>>),
              FunctionRecord(sanitizer_cov, 16, <<>>),
              FunctionRecord(llvm_memcpy, 32, <<>>)}

InputTables == {<<e, b>> : e \in EntryRecords, b \in BodyRecords}

RECURSIVE Flatten(_)
\* the concatenation of a sequence of sequences
Flatten(ss) == IF ss = <<>> THEN <<>> ELSE Head(ss) \o Flatten(Tail(ss))

\* the indices, in Flatten(ss), of the elements of ss[p]
SliceOf(ss, p) ==
    LET before == Len(Flatten(SubSeq(ss, 1, p - 1)))
    IN [i \in 1..Len(ss[p]) |-> before + i]

(***************************************************************************)
(* FuzzerProfile                                                           *)
(***************************************************************************)
\* FuzzerProfile.__init__, on a .data file whose call tree section is empty
FuzzerProfile(elements) ==
    [function_call_depths |-> <<>>,
     all_function_data |-> elements,
     funcsReachedByFuzzer |-> None]

RECURSIVE ReachedScan(_, _, _)
\* the loop of set_all_reached_functions over all_function_data
ReachedScan(heap, table, acc) ==
    IF table = <<>> THEN acc
    ELSE LET func == heap[Head(table)]
         IN ReachedScan(heap, Tail(table),
                IF func["functionName"] = LLVMFuzzerTestOneInput
                THEN func["functionsReached"] ELSE acc)

set_all_reached_functions(heap, self) ==
    Put(self, "funcsReachedByFuzzer",
        Some(ReachedScan(heap, self["all_function_data"], <<>>)))

RECURSIVE UnreachedScan(_, _, _)
\* the loop of set_all_unreached_functions over all_function_data
UnreachedScan(heap, table, reached) ==
    IF table = <<>> THEN <<>>
    ELSE LET func == heap[Head(table)]
             in_fuzzer == \E i \in DOMAIN reached : reached[i] = func["functionName"]
         IN (IF in_fuzzer THEN <<>> ELSE <<func["functionName"]>>)
                \o UnreachedScan(heap, Tail(table), reached)

set_all_unreached_functions(heap, self) ==
    Put(self, "funcsUnreachedByFuzzer",
        UnreachedScan(heap, self["all_function_data"],
                      self["funcsReachedByFuzzer"][1]))

\* fuzz_cov_load.llvm_cov_load finds no coverage report in the target folder
correlate_runtime_coverage_with_reachability(self) ==
    Put(self, "coverage",
        [functions_hit |-> {}, coverage_map |-> <<>>])

RECURSIVE FileTargetsScan(_, _)
\* the loop of get_file_targets over function_call_depths
FileTargetsScan(nodes, file_targets) ==
    IF nodes = <<>> THEN file_targets
    ELSE LET fd == Head(nodes)
             file == fd["functionSourceFile"]
         IN IF \A i \in DOMAIN file : file[i] = " "
            THEN FileTargetsScan(Tail(nodes), file_targets)
            ELSE FileTargetsScan(Tail(nodes),
                    Put(file_targets, file,
                        (IF file \in DOMAIN file_targets
                         THEN file_targets[file] ELSE {})
                            \cup {fd["function_name"]}))

get_file_targets(self) ==
    Put(self, "file_targets",
        FileTargetsScan(self["function_call_depths"], <<>>))

RECURSIVE TotalScan(_, _, _, _)
\* the nested loops of get_total_basic_blocks and
\* get_total_cyclomatic_complexity: key summed over the records named in reached
TotalScan(heap, table, reached, key) ==
    IF reached = <<>> THEN 0
    ELSE LET matching == {i \in DOMAIN table :
                            heap[table[i]]["functionName"] = Head(reached)}
         IN SumOver([i \in matching |-> heap[table[i]][key]], matching)
                + TotalScan(heap, table, Tail(reached), key)

get_total_basic_blocks(heap, self) ==
    Put(self, "total_basic_blocks",
        TotalScan(heap, self["all_function_data"],
                  self["funcsReachedByFuzzer"][1], "BBCount"))

get_total_cyclomatic_complexity(heap, self) ==
    Put(self, "total_cyclomatic_complexity",
        TotalScan(heap, self["all_function_data"],
                  self["funcsReachedByFuzzer"][1], "CyclomaticComplexity"))

accummulate_profile(heap, self) ==
    LET s1 == set_all_reached_functions(heap, self)
        s2 == set_all_unreached_functions(heap, s1)
        s3 == correlate_runtime_coverage_with_reachability(s2)
        s4 == get_file_targets(s3)
        s5 == get_total_basic_blocks(heap, s4)
    IN get_total_cyclomatic_complexity(heap, s5)

(***************************************************************************)
(* MergedProjectProfile                                                    *)
(***************************************************************************)
\* mutant: only the first profile of the list is read
PopulateFunctionsReachedFirstOnly(pheap, profs) ==
    IF profs = <<>> THEN {}
    ELSE Range(pheap[profs[1]]["funcsReachedByFuzzer"][1])

\* mutant: the set is assigned, not added to: only the last profile counts
PopulateFunctionsReachedLastOnly(pheap, profs) ==
    IF profs = <<>> THEN {}
    ELSE Range(pheap[profs[Len(profs)]]["funcsReachedByFuzzer"][1])

\* lines 236-238: the names some profile of the list reaches
PopulateFunctionsReached(pheap, profs) ==
    UNION {Range(pheap[profs[k]]["funcsReachedByFuzzer"][1]) : k \in DOMAIN profs}

\* mutant: the test of line 243 left out
SetUnreachedFunctionsUnfiltered(pheap, profs, functions_reached) ==
    UNION {Range(pheap[profs[k]]["funcsUnreachedByFuzzer"]) : k \in DOMAIN profs}

\* lines 241-244: the names some profile leaves unreached and none reaches
SetUnreachedFunctions(pheap, profs, functions_reached) ==
    {func_name \in UNION {Range(pheap[profs[k]]["funcsUnreachedByFuzzer"]) :
                            k \in DOMAIN profs} :
        func_name \notin functions_reached}

\* mutant: only the first of the two substrings is looked for
IsSkippedSanitizerOnly(name) == Contains(name, sanitizer)

\* lines 249-250
IsSkipped(name) == Contains(name, sanitizer) \/ Contains(name, llvm)

\* mutant: a flag instead of a count
FindHitCountFlag(pheap, profs, name) ==
    IF \E k \in DOMAIN profs : In(name, pheap[profs[k]]["funcsReachedByFuzzer"][1])
    THEN 1 ELSE 0

\* lines 255-258: one count per profile of the list that reaches name
FindHitCount(pheap, profs, name) ==
    Cardinality({k \in DOMAIN profs :
                    In(name, pheap[profs[k]]["funcsReachedByFuzzer"][1])})

\* mutant: the scan of all_functions finds nothing
IsDuplicateNever(heap, all_functions, fd) == FALSE

\* lines 260-264
IsDuplicate(heap, all_functions, fd) ==
    \E i \in DOMAIN all_functions :
        heap[all_functions[i]]["functionName"] = heap[fd]["functionName"]

RECURSIVE GatherFunctions(_, _, _, _, _)
\* lines 247-268, over work, the records of the profiles of the list in order:
\* every record that is not skipped gets its hitcount, the first record of a
\* name is appended to all_functions
GatherFunctions(work, heap, pheap, profs, all_functions) ==
    IF work = <<>> THEN [heap |-> heap, all_functions |-> all_functions]
    ELSE LET fd == Head(work)
             name == heap[fd]["functionName"]
         IN IF IsSkipped(name)
            THEN GatherFunctions(Tail(work), heap, pheap, profs, all_functions)
            ELSE GatherFunctions(Tail(work),
                    [heap EXCEPT ![fd] =
                        Put(@, "hitcount", FindHitCount(pheap, profs, name))],
                    pheap, profs,
                    IF IsDuplicate(heap, all_functions, fd)
                    THEN all_functions ELSE Append(all_functions, fd))

\* lines 273-276: the entries whose functionsReached names fd1
IncomingReferences(heap, all_functions, fd1) ==
    SelectSeq(all_functions,
              LAMBDA fd2 : In(heap[fd1]["functionName"],
                              heap[fd2]["functionsReached"]))

\* lines 272-277
SetIncomingReferences(heap, all_functions) ==
    [fd \in DOMAIN heap |->
        IF fd \in Range(all_functions)
        THEN Put(heap[fd], "incoming_references",
                 IncomingReferences(heap, all_functions, fd))
        ELSE heap[fd]]

\* lines 283-286: CyclomaticComplexity summed over the entries fd10 reaches
ReachedComplexity(heap, all_functions, fd10) ==
    LET reached == {i \in DOMAIN all_functions :
                      In(heap[all_functions[i]]["functionName"],
                         heap[fd10]["functionsReached"])}
    IN SumOver([i \in reached |->
                  heap[all_functions[i]]["CyclomaticComplexity"]], reached)

\* mutant: the hitcount test inverted
NewComplexityOfHit(heap, all_functions, fd10) ==
    LET hit == {i \in DOMAIN all_functions :
                    /\ In(heap[all_functions[i]]["functionName"],
                          heap[fd10]["functionsReached"])
                    /\ heap[all_functions[i]]["hitcount"] # 0}
    IN SumOver([i \in hit |->
                  heap[all_functions[i]]["CyclomaticComplexity"]], hit)

\* lines 289-292: the same over the reached entries with hitcount 0
NewComplexity(heap, all_functions, fd10) ==
    LET unhit == {i \in DOMAIN all_functions :
                    /\ In(heap[all_functions[i]]["functionName"],
                          heap[fd10]["functionsReached"])
                    /\ heap[all_functions[i]]["hitcount"] = 0}
    IN SumOver([i \in unhit |->
                  heap[all_functions[i]]["CyclomaticComplexity"]], unhit)

\* mutant: the function's own complexity is added whatever its hitcount
NewUnreachedComplexityAlwaysOwn(heap, all_functions, fd10) ==
    NewComplexity(heap, all_functions, fd10)
        + heap[fd10]["CyclomaticComplexity"]

\* lines 293-296
NewUnreachedComplexity(heap, all_functions, fd10) ==
    IF heap[fd10]["hitcount"] = 0
    THEN NewComplexity(heap, all_functions, fd10)
            + heap[fd10]["CyclomaticComplexity"]
    ELSE NewComplexity(heap, all_functions, fd10)

\* mutant: the function's own complexity is left out
TotalCyclomaticComplexityCalleesOnly(heap, all_functions, fd10) ==
    ReachedComplexity(heap, all_functions, fd10)

\* line 298
TotalCyclomaticComplexity(heap, all_functions, fd10) ==
    ReachedComplexity(heap, all_functions, fd10)
        + heap[fd10]["CyclomaticComplexity"]

\* lines 282-298 (and again 344-359): both values of every entry, from the
\* hitcounts and complexities the entries have when the loop starts
GatherComplexity(heap, all_functions) ==
    [fd \in DOMAIN heap |->
        IF fd \in Range(all_functions)
        THEN Put(Put(heap[fd], "new_unreached_complexity",
                     NewUnreachedComplexity(heap, all_functions, fd)),
                 "total_cyclomatic_complexity",
                 TotalCyclomaticComplexity(heap, all_functions, fd))
        ELSE heap[fd]]

\* the records of the profiles of the list, in the order lines 247-248 visit them
WorkList(pheap, profs) ==
    Flatten([k \in DOMAIN profs |-> pheap[profs[k]]["all_function_data"]])

\* MergedProjectProfile.__init__ raises: line 237 iterates None
InitRaises(pheap, profs) ==
    \E k \in DOMAIN profs : pheap[profs[k]]["funcsReachedByFuzzer"] = None

\* MergedProjectProfile.__init__(profs): the new object and the heap it leaves
MergedProjectProfile(heap, pheap, profs) ==
    LET functions_reached == PopulateFunctionsReached(pheap, profs)
        unreached_functions ==
            SetUnreachedFunctions(pheap, profs, functions_reached)
        gathered == GatherFunctions(WorkList(pheap, profs), heap, pheap, profs, <<>>)
        all_functions == gathered.all_functions
        heap2 == SetIncomingReferences(gathered.heap, all_functions)
        heap3 == GatherComplexity(heap2, all_functions)
    IN [heap |-> heap3,
        self |-> [name |-> None,
                  profiles |-> profs,
                  all_functions |-> all_functions,
                  unreached_functions |-> unreached_functions,
                  functions_reached |-> functions_reached]]

get_total_reached_function_count(heap, self) ==
    Cardinality({i \in DOMAIN self.all_functions :
                    heap[self.all_functions[i]]["hitcount"] # 0})

get_total_unreached_function_count(heap, self) ==
    Cardinality({i \in DOMAIN self.all_functions :
                    heap[self.all_functions[i]]["hitcount"] = 0})

(***************************************************************************)
(* add_func_to_reached_and_clone                                           *)
(***************************************************************************)
RECURSIVE ReferencedFrom(_, _)
\* the records reachable from the records S through incoming_references
ReferencedFrom(heap, S) ==
    LET next == S \cup UNION {Range(heap[fd]["incoming_references"]) :
                                fd \in {x \in S : "incoming_references" \in DOMAIN heap[x]}}
    IN IF next = S THEN S ELSE ReferencedFrom(heap, next)

\* the records copy.deepcopy(self) reaches: those of all_functions, those of
\* the tables of self.profiles, and those they reference
RecordsOf(heap, pheap, self) ==
    ReferencedFrom(heap,
        Range(self.all_functions)
            \cup UNION {Range(pheap[p]["all_function_data"]) :
                            p \in Range(self.profiles)})

\* the position of x in the sequence s of distinct elements
IndexOf(s, x) == CHOOSE i \in DOMAIN s : s[i] = x

\* mutant: copy.copy, the clone shares every object with the original
shallowcopy(heap, pheap, self) ==
    [heap |-> heap, pheap |-> pheap, self |-> self]

\* copy.deepcopy(self), line 334: every object self reaches is copied once, to
\* a fresh index, and every reference inside the copies leads to a copy
deepcopy(heap, pheap, self) ==
    LET olds == Ascending(RecordsOf(heap, pheap, self))
        oldp == Ascending(Range(self.profiles))
        newfd(fd) == Len(heap) + IndexOf(olds, fd)
        newp(q) == Len(pheap) + IndexOf(oldp, q)
        copyfd(fd) ==
            IF "incoming_references" \in DOMAIN heap[fd]
            THEN Put(heap[fd], "incoming_references",
                     [k \in DOMAIN heap[fd]["incoming_references"] |->
                        newfd(heap[fd]["incoming_references"][k])])
            ELSE heap[fd]
        copyp(q) ==
            Put(pheap[q], "all_function_data",
                [k \in DOMAIN pheap[q]["all_function_data"] |->
                    newfd(pheap[q]["all_function_data"][k])])
    IN [heap |-> heap \o [k \in DOMAIN olds |-> copyfd(olds[k])],
        pheap |-> pheap \o [k \in DOMAIN oldp |-> copyp(oldp[k])],
        self |-> [self EXCEPT
                    !.profiles = [k \in DOMAIN self.profiles |-> newp(self.profiles[k])],
                    !.all_functions =
                        [k \in DOMAIN self.all_functions |-> newfd(self.all_functions[k])]]]

\* mutant: lines 341-342 left out, only the target is marked
UpdateHitcountTargetOnly(fd_tmp, func_dict_old) ==
    IF /\ fd_tmp["functionName"] = func_dict_old["functionName"]
       /\ fd_tmp["CyclomaticComplexity"] = func_dict_old["CyclomaticComplexity"]
    THEN Put(fd_tmp, "hitcount", 1)
    ELSE fd_tmp

\* mutant: line 341 counts a reach instead of marking an unhit function
UpdateHitcountIncrement(fd_tmp, func_dict_old) ==
    LET first ==
            IF /\ fd_tmp["functionName"] = func_dict_old["functionName"]
               /\ fd_tmp["CyclomaticComplexity"] = func_dict_old["CyclomaticComplexity"]
            THEN Put(fd_tmp, "hitcount", 1)
            ELSE fd_tmp
    IN IF In(first["functionName"], func_dict_old["functionsReached"])
       THEN Put(first, "hitcount", first["hitcount"] + 1)
       ELSE first

\* lines 338-342, for one fd_tmp of the clone
UpdateHitcount(fd_tmp, func_dict_old) ==
    LET first ==
            IF /\ fd_tmp["functionName"] = func_dict_old["functionName"]
               /\ fd_tmp["CyclomaticComplexity"] = func_dict_old["CyclomaticComplexity"]
            THEN Put(fd_tmp, "hitcount", 1)
            ELSE fd_tmp
    IN IF /\ In(first["functionName"], func_dict_old["functionsReached"])
          /\ first["hitcount"] = 0
       THEN Put(first, "hitcount", 1)
       ELSE first

\* lines 337-342
UpdateHitcounts(heap, all_functions, func_dict_old) ==
    [fd \in DOMAIN heap |->
        IF fd \in Range(all_functions)
        THEN UpdateHitcount(heap[fd], func_dict_old)
        ELSE heap[fd]]

\* add_func_to_reached_and_clone(merged_profile_old, func_dict_old)
add_func_to_reached_and_clone(heap, pheap, merged_profile_old, func_dict_old) ==
    LET copied == deepcopy(heap, pheap, merged_profile_old)
        merged_profile == copied.self
        heap2 == UpdateHitcounts(copied.heap, merged_profile.all_functions,
                                 func_dict_old)
        heap3 == GatherComplexity(heap2, merged_profile.all_functions)
    IN [heap |-> heap3, pheap |-> copied.pheap, self |-> merged_profile]

(***************************************************************************)
(* The program: load_all_profiles has read the plugin's output and every   *)
(* profile has run accummulate_profile; the caller then merges lists of    *)
(* profiles and clones merged profiles, in any order.  calls[m] is the     *)
(* call that returned merged[m].                                           *)
(***************************************************************************)
Init ==
    \E tables \in [1..NumProfiles -> InputTables] :
        /\ fds = Flatten(tables)
        /\ profiles = [q \in 1..NumProfiles |->
                         accummulate_profile(Flatten(tables),
                                             FuzzerProfile(SliceOf(tables, q)))]
        /\ merged = <<>>
        /\ calls = <<>>

\* MergedProjectProfile(profs)
Merge(profs) ==
    /\ ~InitRaises(profiles, profs)
    /\ Len(merged) < MaxMerged
    /\ LET new == MergedProjectProfile(fds, profiles, profs)
       IN /\ fds' = new.heap
          /\ merged' = Append(merged, new.self)
    /\ calls' = Append(calls, [op |-> "MergedProjectProfile", profiles |-> profs])
    /\ UNCHANGED profiles

\* add_func_to_reached_and_clone(merged[m], fds[f])
Clone(m, f) ==
    /\ Len(merged) < MaxMerged
    /\ LET new == add_func_to_reached_and_clone(fds, profiles, merged[m], fds[f])
       IN /\ fds' = new.heap
          /\ profiles' = new.pheap
          /\ merged' = Append(merged, new.self)
    /\ calls' = Append(calls, [op |-> "add_func_to_reached_and_clone",
                               merged_profile_old |-> m, func_dict_old |-> f])

Next ==
    \/ \E profs \in ListsUpTo(DOMAIN profiles, MaxListLen) : Merge(profs)
    \/ \E m \in DOMAIN merged :
         \E f \in RecordsOf(fds, profiles, merged[m]) : Clone(m, f)

Spec == Init /\ [][Next]_vars

(***************************************************************************)
(* Two functions added to the reached set of one merged profile in both    *)
(* orders: P = MergedProjectProfile(profs), then                           *)
(* PX = add_func_to_reached_and_clone(P, X), PY = ...(P, Y),               *)
(* PXY = ...(PX, Y) and PYX = ...(PY, X), which are merged[1] to merged[5].*)
(***************************************************************************)
\* add_func_to_reached_and_clone(merged[m], fds[f]) for any record f
CallClone(m, f) ==
    /\ LET new == add_func_to_reached_and_clone(fds, profiles, merged[m], fds[f])
       IN /\ fds' = new.heap
          /\ profiles' = new.pheap
          /\ merged' = Append(merged, new.self)
    /\ calls' = Append(calls, [op |-> "add_func_to_reached_and_clone",
                               merged_profile_old |-> m, func_dict_old |-> f])

CommuteMerge ==
    /\ merged = <<>>
    /\ \E profs \in ListsUpTo(DOMAIN profiles, MaxListLen) : Merge(profs)

CommuteCloneX ==
    /\ Len(merged) = 1
    /\ \E X \in RecordsOf(fds, profiles, merged[1]) : CallClone(1, X)

CommuteCloneY ==
    /\ Len(merged) = 2
    /\ \E Y \in RecordsOf(fds, profiles, merged[1]) : CallClone(1, Y)

CommuteCloneXY ==
    /\ Len(merged) = 3
    /\ CallClone(2, calls[3].func_dict_old)

CommuteCloneYX ==
    /\ Len(merged) = 4
    /\ CallClone(3, calls[2].func_dict_old)

NextCommute ==
    \/ CommuteMerge
    \/ CommuteCloneX
    \/ CommuteCloneY
    \/ CommuteCloneXY
    \/ CommuteCloneYX

SpecCommute == Init /\ [][NextCommute]_vars

(***************************************************************************)
(* FuzzerProfile of datatypes/fuzzer_profile.py.  all_class_functions is a *)
(* dict, which keeps its keys in the order they were first set: keys is    *)
(* that order, value the mapping.  A method either returns, leaving the    *)
(* object as its assignments made it, or raises exc.                       *)
(***************************************************************************)
\* the substring line 259 looks for, itself the usual name of a Python entrypoint
TestOneInput == <<"TestOneInput">>

fuzz_TestOneInput == <<"fuzz_", "TestOneInput">>

Returns(self) == [exc |-> "none", self |-> self]

Raises(exc, self) == [exc |-> exc, self |-> self]

\* function_profile.FunctionProfile(elem)
FunctionProfile(elem) ==
    [function_name |-> elem["functionName"],
     functions_reached |-> elem["functionsReached"],
     bb_count |-> elem["BBCount"],
     cyclomatic_complexity |-> elem["CyclomaticComplexity"]]

\* d[k] = v on a dict whose key order matters
DictSet(d, k, v) ==
    [keys |-> IF In(k, d.keys) THEN d.keys ELSE Append(d.keys, k),
     value |-> Put(d.value, k, v)]

RECURSIVE _set_function_list(_, _)
\* lines 336-344: a later element replaces an earlier one of the same name
_set_function_list(elements, all_class_functions) ==
    IF elements = <<>> THEN all_class_functions
    ELSE LET func_profile == FunctionProfile(Head(elements))
         IN _set_function_list(Tail(elements),
                DictSet(all_class_functions, func_profile.function_name,
                        func_profile))

\* FuzzerProfile.__init__(cfg_file, frontend_yaml, target_lang), lines 45-68;
\* functions_reached_by_fuzzer, functions_unreached_by_fuzzer and the two
\* totals are not attributes yet
datatypes_FuzzerProfile(function_call_depths, elements, target_lang) ==
    [binary_executable |-> "",
     file_targets |-> <<>>,
     coverage |-> None,
     all_class_functions |-> _set_function_list(elements, [keys |-> <<>>, value |-> <<>>]),
     target_lang |-> target_lang,
     function_call_depths |-> function_call_depths]

\* mutant: one loop over the table, the exact name has no precedence
_set_all_reached_functions_FirstMarker(self) ==
    LET acf == self["all_class_functions"]
        marked == SelectSeq(acf.keys, LAMBDA func_name : Contains(func_name, TestOneInput))
    IN IF marked # <<>>
       THEN Returns(Put(self, "functions_reached_by_fuzzer",
                        acf.value[Head(marked)].functions_reached))
       ELSE Raises("Exception", self)

\* lines 246-265
_set_all_reached_functions(self) ==
    LET acf == self["all_class_functions"]
        marked == SelectSeq(acf.keys, LAMBDA func_name : Contains(func_name, TestOneInput))
    IN IF In(LLVMFuzzerTestOneInput, acf.keys)
       THEN Returns(Put(self, "functions_reached_by_fuzzer",
                        acf.value[LLVMFuzzerTestOneInput].functions_reached))
       ELSE IF marked # <<>>
       THEN Returns(Put(self, "functions_reached_by_fuzzer",
                        acf.value[Head(marked)].functions_reached))
       ELSE Raises("Exception", self)

\* lines 267-276
_set_all_unreached_functions(self) ==
    LET acf == self["all_class_functions"]
        unreached ==
            SelectSeq(acf.keys, LAMBDA key :
                ~In(acf.value[key].function_name,
                    self["functions_reached_by_fuzzer"]))
    IN IF acf.keys # <<>> /\ "functions_reached_by_fuzzer" \notin DOMAIN self
       THEN Raises("AttributeError", self)
       ELSE Returns(Put(self, "functions_unreached_by_fuzzer",
                [k \in DOMAIN unreached |-> acf.value[unreached[k]].function_name]))

\* lines 278-293: cov_load finds no coverage report in the target folder
_load_coverage(self) ==
    IF self["target_lang"] \in {"c-cpp", "python"}
    THEN Returns(Put(self, "coverage", Some([covmap |-> <<>>])))
    ELSE Raises("DataLoaderError", self)

RECURSIVE CallsitesScanNoSkip(_, _)
\* mutant: lines 305-306 removed, a blank file name becomes a key
CallsitesScanNoSkip(all_callsites, file_targets) ==
    IF all_callsites = <<>> THEN file_targets
    ELSE LET cs == Head(all_callsites)
             file == cs.dst_function_source_file
         IN CallsitesScanNoSkip(Tail(all_callsites),
                Put(file_targets, file,
                    (IF file \in DOMAIN file_targets
                     THEN file_targets[file] ELSE {})
                        \cup {cs.dst_function_name}))

RECURSIVE CallsitesScan(_, _)
\* the loop of lines 306-311 over the call sites of the call tree
CallsitesScan(all_callsites, file_targets) ==
    IF all_callsites = <<>> THEN file_targets
    ELSE LET cs == Head(all_callsites)
             file == cs.dst_function_source_file
         IN IF \A i \in DOMAIN file : file[i] = " "
            THEN CallsitesScan(Tail(all_callsites), file_targets)
            ELSE CallsitesScan(Tail(all_callsites),
                    Put(file_targets, file,
                        (IF file \in DOMAIN file_targets
                         THEN file_targets[file] ELSE {})
                            \cup {cs.dst_function_name}))

\* lines 298-311
_set_file_targets(self) ==
    IF self["function_call_depths"] # None
    THEN Returns(Put(self, "file_targets",
                     CallsitesScan(self["function_call_depths"][1],
                                   self["file_targets"])))
    ELSE Returns(self)

RECURSIVE ReachedTotal(_, _, _, _)
\* the loops of lines 318-320 and 328-330: attr summed over the records of the
\* names of reached, up to the first name that is no key of all_class_functions
ReachedTotal(acf, reached, attr, total) ==
    IF reached = <<>> THEN [exc |-> "none", total |-> total]
    ELSE IF ~In(Head(reached), acf.keys)
    THEN [exc |-> "KeyError", total |-> total]
    ELSE ReachedTotal(acf, Tail(reached), attr,
                      total + acf.value[Head(reached)][attr])

\* lines 313-321
_set_total_basic_blocks(self) ==
    IF "functions_reached_by_fuzzer" \notin DOMAIN self
    THEN Raises("AttributeError", self)
    ELSE LET scan == ReachedTotal(self["all_class_functions"],
                                  self["functions_reached_by_fuzzer"], "bb_count", 0)
         IN IF scan.exc = "none"
            THEN Returns(Put(self, "total_basic_blocks", scan.total))
            ELSE Raises(scan.exc, self)

\* lines 323-330: the attribute itself is the accumulator
_set_total_cyclomatic_complexity(self) ==
    LET zeroed == Put(self, "total_cyclomatic_complexity", 0)
    IN IF "functions_reached_by_fuzzer" \notin DOMAIN self
       THEN Raises("AttributeError", zeroed)
       ELSE LET scan == ReachedTotal(self["all_class_functions"],
                                     self["functions_reached_by_fuzzer"],
                                     "cyclomatic_complexity", 0)
                summed == Put(self, "total_cyclomatic_complexity", scan.total)
            IN IF scan.exc = "none" THEN Returns(summed)
               ELSE Raises(scan.exc, summed)

\* mutant: the unreached set is computed before the reached set
datatypes_accummulate_profile_UnreachedFirst ==
    <<"_set_all_unreached_functions", "_set_all_reached_functions",
      "_load_coverage", "_set_file_targets",
      "_set_total_basic_blocks", "_set_total_cyclomatic_complexity">>

\* the calls of accummulate_profile, lines 159-164, in order
datatypes_accummulate_profile ==
    <<"_set_all_reached_functions", "_set_all_unreached_functions",
      "_load_coverage", "_set_file_targets",
      "_set_total_basic_blocks", "_set_total_cyclomatic_complexity">>

\* the method of the datatypes FuzzerProfile that op names, called on self
datatypes_call(op, self) ==
    CASE op = "_set_all_reached_functions" -> _set_all_reached_functions(self)
      [] op = "_set_all_unreached_functions" -> _set_all_unreached_functions(self)
      [] op = "_load_coverage" -> _load_coverage(self)
      [] op = "_set_file_targets" -> _set_file_targets(self)
      [] op = "_set_total_basic_blocks" -> _set_total_basic_blocks(self)
      [] op = "_set_total_cyclomatic_complexity" ->
            _set_total_cyclomatic_complexity(self)

(***************************************************************************)
(* FuzzerProfile of post-processing/fuzz_data_loader.py, one method at a   *)
(* time.  Iterating funcsReachedByFuzzer while it is None raises.          *)
(***************************************************************************)
\* the calls of accummulate_profile, lines 193-198, in order
loader_accummulate_profile ==
    <<"set_all_reached_functions", "set_all_unreached_functions",
      "correlate_runtime_coverage_with_reachability", "get_file_targets",
      "get_total_basic_blocks", "get_total_cyclomatic_complexity">>

\* the method of the post-processing FuzzerProfile that op names, called on self
loader_call(op, heap, self) ==
    CASE op = "set_all_reached_functions" ->
            Returns(set_all_reached_functions(heap, self))
      [] op = "set_all_unreached_functions" ->
            IF self["all_function_data"] # <<>> /\ self["funcsReachedByFuzzer"] = None
            THEN Raises("TypeError", Put(self, "funcsUnreachedByFuzzer", <<>>))
            ELSE Returns(set_all_unreached_functions(heap, self))
      [] op = "correlate_runtime_coverage_with_reachability" ->
            Returns(correlate_runtime_coverage_with_reachability(self))
      [] op = "get_file_targets" -> Returns(get_file_targets(self))
      [] op = "get_total_basic_blocks" ->
            IF self["funcsReachedByFuzzer"] = None
            THEN Raises("TypeError", self)
            ELSE Returns(get_total_basic_blocks(heap, self))
      [] op = "get_total_cyclomatic_complexity" ->
            IF self["funcsReachedByFuzzer"] = None
            THEN Raises("TypeError", Put(self, "total_cyclomatic_complexity", 0))
            ELSE Returns(get_total_cyclomatic_complexity(heap, self))

(***************************************************************************)
(* One call of accummulate_profile, method by method, on one profile of    *)
(* either class read from one function table: fds is the table, profiles   *)
(* holds the profile, calls is the log of the methods the call has run so  *)
(* far, each with the exception it ended with ("none" when it returned).   *)
(* An exception ends the call.                                             *)
(***************************************************************************)
\* the function tables have at most MaxTableLen elements
MaxTableLen == 3

AccumulateRecords ==
    {FunctionRecord(LLVMFuzzerTestOneInput, 8, <<foo>>),
     FunctionRecord(LLVMFuzzerTestOneInput, 8, <<foo, bar>>),
     FunctionRecord(TestOneInput, 8, <<bar>>),
     FunctionRecord(fuzz_TestOneInput, 8, <<>>),
     FunctionRecord(foo, 1, <<bar>>),
     FunctionRecord(bar, 4, <<bar>>)}

AccumulateTables == UNION {[1..n -> AccumulateRecords] : n \in 0..MaxTableLen}

\* cfg_load.data_file_read_calltree: no call tree, or one call site
CallTrees ==
    {None,
     Some(<<[dst_function_source_file |-> <<"foo.c">>, dst_function_name |-> foo]>>)}

InitAccumulate ==
    \E elements \in AccumulateTables :
        /\ fds = elements
        /\ \/ \E tree \in CallTrees, target_lang \in {"c-cpp", "python", "jvm"} :
                profiles = <<datatypes_FuzzerProfile(tree, elements, target_lang)>>
           \/ profiles = <<FuzzerProfile([i \in DOMAIN elements |-> i])>>
        /\ merged = <<>>
        /\ calls = <<>>

IsDatatypes(self) == "all_class_functions" \in DOMAIN self

\* the call has not ended: no method raised and some method is still to run
Running ==
    /\ Len(calls) < 6
    /\ \A i \in DOMAIN calls : calls[i].exc = "none"

\* the next method of datatypes accummulate_profile
AccumulateDatatypes ==
    /\ Running
    /\ IsDatatypes(profiles[1])
    /\ LET op == datatypes_accummulate_profile[Len(calls) + 1]
           done == datatypes_call(op, profiles[1])
       IN /\ profiles' = <<done.self>>
          /\ calls' = Append(calls, [op |-> op, exc |-> done.exc])
    /\ UNCHANGED <<fds, merged>>

\* the next method of post-processing accummulate_profile
AccumulateLoader ==
    /\ Running
    /\ ~IsDatatypes(profiles[1])
    /\ LET op == loader_accummulate_profile[Len(calls) + 1]
           done == loader_call(op, fds, profiles[1])
       IN /\ profiles' = <<done.self>>
          /\ calls' = Append(calls, [op |-> op, exc |-> done.exc])
    /\ UNCHANGED <<fds, merged>>

NextAccumulate == AccumulateDatatypes \/ AccumulateLoader

SpecAccumulate == InitAccumulate /\ [][NextAccumulate]_vars

(***************************************************************************)
(* Coverage queries of datatypes/fuzzer_profile.py.  coverage is None or   *)
(* the object _load_coverage stored; its get_hit_summary(funcname) gives   *)
(* (total_lines, hit_lines), each an int or None.  A query returns value   *)
(* or raises exc.  hit_percentage is kept in whole percent.                *)
(***************************************************************************)
MaxFuncLines == 2

MaxQueries == 2

Result(value) == [exc |-> "none", value |-> value]

Raised(exc) == [exc |-> exc, value |-> None]

\* CoverageProfile.get_hit_summary
get_hit_summary(coverage, funcname) == coverage[funcname]

\* lines 225-230: the body of the try statement
get_cov_metrics_try(self, funcname) ==
    LET summary == get_hit_summary(self.coverage[1], funcname)
        total_func_lines == summary[1]
        hit_lines == summary[2]
    IN IF total_func_lines = None \/ hit_lines = None
       THEN Result(<<None, None, None>>)
       ELSE IF total_func_lines[1] = 0
            THEN Raised("ZeroDivisionError")
            ELSE Result(<<total_func_lines, hit_lines,
                          Some((hit_lines[1] * 100) \div total_func_lines[1])>>)

\* mutant: lines 231-232 removed, an exception of the body leaves the method
get_cov_metrics_NoExcept(self, funcname) ==
    IF self.coverage = None
    THEN Result(<<None, None, None>>)
    ELSE get_cov_metrics_try(self, funcname)

\* lines 218-232
get_cov_metrics(self, funcname) ==
    IF self.coverage = None
    THEN Result(<<None, None, None>>)
    ELSE LET body == get_cov_metrics_try(self, funcname)
         IN IF body.exc # "none"
            THEN Result(<<None, None, None>>)
            ELSE body

\* lines 179-185: the loop, from the k-th reached function on
RECURSIVE UncoveredFrom(_, _, _)
UncoveredFrom(self, k, uncovered_funcs) ==
    IF k > Len(self.functions_reached_by_fuzzer)
    THEN Result(uncovered_funcs)
    ELSE LET funcname == self.functions_reached_by_fuzzer[k]
             metrics == get_cov_metrics(self, funcname)
         IN IF metrics.exc # "none"
            THEN Raised(metrics.exc)
            ELSE IF metrics.value[1] = None
                 THEN UncoveredFrom(self, k + 1, Append(uncovered_funcs, funcname))
                 ELSE IF metrics.value[2] = Some(0)
                      THEN UncoveredFrom(self, k + 1, Append(uncovered_funcs, funcname))
                      ELSE UncoveredFrom(self, k + 1, uncovered_funcs)

\* lines 166-186
get_cov_uncovered_reachable_funcs(self) ==
    IF self.coverage = None
    THEN Result(<<>>)
    ELSE UncoveredFrom(self, 1, <<>>)

\* what get_hit_summary reports for one function
HitSummaries ==
    {<<None, None>>}
        \cup {<<Some(t), Some(h)>> : t \in 0..MaxFuncLines, h \in 0..MaxFuncLines}

CoveredNames == {foo, bar}

\* a profile after accummulate_profile, as far as the queries read it
InitCoverage ==
    /\ fds = <<>>
    /\ merged = <<>>
    /\ calls = <<>>
    /\ \E coverage \in {None} \cup {Some(c) : c \in [CoveredNames -> HitSummaries]},
          reached \in ListsUpTo(CoveredNames, Cardinality(CoveredNames)) :
          profiles = <<[coverage |-> coverage,
                        functions_reached_by_fuzzer |-> reached]>>

CallGetCovMetrics ==
    /\ Len(calls) < MaxQueries
    /\ \E funcname \in CoveredNames :
          LET r == get_cov_metrics(profiles[1], funcname)
          IN calls' = Append(calls, [op |-> "get_cov_metrics", funcname |-> funcname,
                                     exc |-> r.exc, value |-> r.value])
    /\ UNCHANGED <<fds, profiles, merged>>

CallGetCovUncoveredReachableFuncs ==
    /\ Len(calls) < MaxQueries
    /\ LET r == get_cov_uncovered_reachable_funcs(profiles[1])
       IN calls' = Append(calls, [op |-> "get_cov_uncovered_reachable_funcs",
                                  funcname |-> None,
                                  exc |-> r.exc, value |-> r.value])
    /\ UNCHANGED <<fds, profiles, merged>>

NextCoverage ==
    \/ CallGetCovMetrics
    \/ CallGetCovUncoveredReachableFuncs

SpecCoverage == InitCoverage /\ [][NextCoverage]_vars

(***************************************************************************)
(* data_file_read_calltree of post-processing/fuzz_data_loader.py.  flog   *)
(* is the .data file, a sequence of lines; a line is a str, cut into the   *)
(* pieces " ", "\n", "======", "Call tree", "linenumber=" and the words     *)
(* between them.  The indentation of a line is a whole number of pairs of  *)
(* spaces, so that depth is a whole number.                                *)
(***************************************************************************)
MaxLines == 3

MaxDepth == 1

MaxLinenumber == 2

\* s.replace(old, ""), for a piece old
Remove(s, old) == SelectSeq(s, LAMBDA piece : piece # old)

RECURSIVE lstrip(_)
\* s.lstrip(' ')
lstrip(s) == IF s # <<>> /\ Head(s) = " " THEN lstrip(Tail(s)) ELSE s

RECURSIVE rstrip(_)
rstrip(s) ==
    IF s # <<>> /\ s[Len(s)] = " " THEN rstrip(SubSeq(s, 1, Len(s) - 1)) ELSE s

\* s.strip()
strip(s) == rstrip(lstrip(s))

RECURSIVE SplitFrom(_, _)
\* the tokens of s after token, which the scan left of s has begun
SplitFrom(s, token) ==
    IF s = <<>> THEN <<token>>
    ELSE IF Head(s) = " "
         THEN <<token>> \o SplitFrom(Tail(s), <<>>)
         ELSE SplitFrom(Tail(s), Append(token, Head(s)))

\* s.split(" "): two spaces in a row have an empty token between them
split(s) == SplitFrom(s, <<>>)

\* int(s): the number s is the numeral of, ValueError for any other str
int(s) ==
    IF \E n \in 0..MaxLinenumber : s = <<ToString(n)>>
    THEN Result(CHOOSE n \in 0..MaxLinenumber : s = <<ToString(n)>>)
    ELSE Raised("ValueError")

RECURSIVE Insert(_, _)
\* x put behind the last node of the sorted list whose linenumber is not larger
Insert(nodes, x) ==
    IF nodes = <<>> THEN <<x>>
    ELSE IF Head(nodes).linenumber <= x.linenumber
         THEN <<Head(nodes)>> \o Insert(Tail(nodes), x)
         ELSE <<x>> \o nodes

\* mutant: the buffered siblings are flushed in the order of the trace
sorted_Unsorted(nodes) == nodes

RECURSIVE sorted(_)
\* list(sorted(nodes, key=lambda x: x['linenumber'])), which is stable
sorted(nodes) ==
    IF nodes = <<>> THEN <<>>
    ELSE Insert(sorted(SubSeq(nodes, 1, Len(nodes) - 1)), nodes[Len(nodes)])

\* the terminator line test of line 81 looks for 36 '=', line 53 for 6
EqualSigns(n) == [i \in 1..n |-> "======"]

\* mutant: the buffer starts without its list
tmp_function_depths_NoList == [depth |-> -2]

\* lines 46-49
tmp_function_depths == [depth |-> -2, function_calls |-> <<>>]

\* lines 54-69: curr_node of one line of the call tree
curr_node(line) ==
    LET stripped_line == split(strip(line))
        linenumber ==
            IF Len(stripped_line) = 3
            THEN int(Remove(stripped_line[3], "linenumber="))
            ELSE Result(0)
        filename == IF Len(stripped_line) = 3 THEN stripped_line[2] ELSE <<>>
        space_count == Len(line) - Len(lstrip(line))
        depth == space_count \div 2
    IN IF linenumber.exc # "none"
       THEN Raised(linenumber.exc)
       ELSE Result([function_name |-> stripped_line[1],
                    functionSourceFile |-> filename,
                    depth |-> depth,
                    linenumber |-> linenumber.value])

\* lines 71-78
Buffer(st, node) ==
    LET tmp == st.tmp_function_depths
        changed == tmp["depth"] # node.depth
        flushed ==
            IF changed /\ tmp["depth"] # -2
            THEN st.function_call_depths \o sorted(tmp["function_calls"])
            ELSE st.function_call_depths
        fresh ==
            IF changed
            THEN [depth |-> node.depth, function_calls |-> <<>>]
            ELSE tmp
    IN [st EXCEPT !.function_call_depths = flushed,
                  !.tmp_function_depths =
                      Put(fresh, "function_calls",
                          Append(fresh["function_calls"], node))]

\* lines 51-84: the body of the loop for one line of the file
ReadLine(st, raw) ==
    LET line == Remove(raw, "\n")
        in_tree == st.read_tree /\ ~Contains(line, EqualSigns(1))
        node == IF in_tree THEN curr_node(line) ELSE Result(None)
    IN IF node.exc # "none"
       THEN [st EXCEPT !.exc = node.exc]
       ELSE LET buffered == IF in_tree THEN Buffer(st, node.value) ELSE st
                ended == IF Contains(line, EqualSigns(6))
                         THEN [buffered EXCEPT !.read_tree = FALSE]
                         ELSE buffered
            IN IF Contains(line, <<"Call tree">>)
               THEN [ended EXCEPT !.read_tree = TRUE]
               ELSE ended

RECURSIVE ReadLines(_, _)
\* line 50: the loop, which an exception leaves
ReadLines(st, flog) ==
    IF flog = <<>> \/ st.exc # "none" THEN st
    ELSE ReadLines(ReadLine(st, Head(flog)), Tail(flog))

\* line 86: the buffer is extended by its own sorted copy
FinalFlush(tmp) ==
    IF "function_calls" \in DOMAIN tmp
    THEN Result(Put(tmp, "function_calls",
                    tmp["function_calls"] \o sorted(tmp["function_calls"])))
    ELSE Raised("KeyError")

\* lines 39-87
data_file_read_calltree(flog) ==
    LET st == ReadLines([read_tree |-> FALSE,
                         function_call_depths |-> <<>>,
                         tmp_function_depths |-> tmp_function_depths,
                         exc |-> "none"], flog)
        last == FinalFlush(st.tmp_function_depths)
    IN IF st.exc # "none" THEN Raised(st.exc)
       ELSE IF last.exc # "none" THEN Raised(last.exc)
            ELSE Result(st.function_call_depths)

\* FuzzerProfile.__init__, line 113
FuzzerProfileOfCalltree(function_call_depths) ==
    Put(FuzzerProfile(<<>>), "function_call_depths", function_call_depths)

(***************************************************************************)
(* The .data files read.  A line of the call tree section is               *)
(* "<indentation><function> <file> linenumber=<n>", a function alone, or   *)
(* something else.                                                         *)
(***************************************************************************)
Indentation(depth) == [i \in 1..(2 * depth) |-> " "]

TreeLine(depth, name, file, third) ==
    Indentation(depth) \o name \o <<" ">> \o file \o <<" ">> \o third \o <<"\n">>

SectionLines ==
    {TreeLine(d, name, <<"a.c">>, <<"linenumber=", ToString(n)>>) :
        d \in 0..MaxDepth, name \in {foo, bar}, n \in 1..MaxLinenumber}
    \cup {TreeLine(MaxDepth, foo, <<"b.c">>, <<"linenumber=", ToString(1)>>)}
    \* "foo  linenumber=1": three tokens, the second one empty
    \cup {TreeLine(0, foo, <<>>, <<"linenumber=", ToString(1)>>)}
    \* "foo a.c x": three tokens, the third one no number
    \cup {TreeLine(0, foo, <<"a.c">>, <<"x">>)}
    \* "bar": one token
    \cup {Indentation(d) \o bar \o <<"\n">> : d \in 0..MaxDepth}
    \* "foo a.c": two tokens
    \cup {foo \o <<" ", "a.c", "\n">>}

MarkerLine == <<"Call tree", "\n">>

TerminatorLine == EqualSigns(6) \o <<"\n">>

\* the empty file, and the files with a call tree section, with or without a
\* line before the marker and with or without the terminator line
CalltreeFiles ==
    {<<>>} \cup
    {prelude \o <<MarkerLine>> \o section \o terminator :
        prelude \in {<<>>, <<TreeLine(0, bar, <<"a.c">>, <<"linenumber=", ToString(1)>>)>>},
        section \in UNION {[1..n -> SectionLines] : n \in 0..MaxLines},
        terminator \in {<<>>, <<TerminatorLine>>}}

\* cfg_load.extract_all_callsites: the call sites of a call tree
Callsites ==
    [dst_function_source_file : {<<>>, <<" ">>, <<"a.c">>, <<"b.c">>},
     dst_function_name : {foo, bar}]

CallsiteTrees ==
    {None} \cup {Some(l) : l \in UNION {[1..n -> Callsites] : n \in 0..MaxLines}}

InitCalltree ==
    /\ fds = <<>>
    /\ profiles = <<>>
    /\ merged = <<>>
    /\ calls = <<>>

\* data_file_read_calltree(filename) on one file
ReadCalltree ==
    /\ calls = <<>>
    /\ \E flog \in CalltreeFiles :
          LET r == data_file_read_calltree(flog)
          IN calls' = <<[op |-> "data_file_read_calltree", input |-> flog,
                         exc |-> r.exc, value |-> r.value]>>
    /\ UNCHANGED <<fds, profiles, merged>>

\* get_file_targets of the profile of the file read
GetFileTargets ==
    /\ Len(calls) = 1
    /\ calls[1].op = "data_file_read_calltree"
    /\ calls[1].exc = "none"
    /\ profiles' = <<get_file_targets(FuzzerProfileOfCalltree(calls[1].value))>>
    /\ calls' = Append(calls, [op |-> "get_file_targets", input |-> calls[1].value,
                               exc |-> "none", value |-> None])
    /\ UNCHANGED <<fds, merged>>

\* _set_file_targets of a datatypes profile
SetFileTargets ==
    /\ calls = <<>>
    /\ \E tree \in CallsiteTrees :
          LET done == _set_file_targets(datatypes_FuzzerProfile(tree, <<>>, "c-cpp"))
          IN /\ profiles' = <<done.self>>
             /\ calls' = <<[op |-> "_set_file_targets", input |-> tree,
                            exc |-> done.exc, value |-> None]>>
    /\ UNCHANGED <<fds, merged>>

NextCalltree ==
    \/ ReadCalltree
    \/ GetFileTargets
    \/ SetFileTargets

SpecCalltree == InitCalltree /\ [][NextCalltree]_vars

(***************************************************************************)
(* load_all_profiles of post-processing/fuzz_data_loader.py, one data file *)
(* of the target folder at a time.  A data file is its .data file (data)   *)
(* and its .data.yaml file (yaml), each None when there is no such file;   *)
(* the .yaml file is wellformed or not and holds a document, None or a     *)
(* dict.  profiles is the list load_all_profiles builds, calls the log of  *)
(* the calls of read_fuzzer_data_file_to_profile.  An exception ends the   *)
(* load.                                                                   *)
(***************************************************************************)
MaxDataFiles == 2

\* lines 27-37: yaml.safe_load, None on YAMLError
data_file_read_all_function_data_yaml(stream) ==
    IF stream.wellformed THEN stream.document ELSE None

\* lines 114-116, once line 113 has read the call tree
FuzzerProfileOfYaml(function_call_depths, data_dict_yaml) ==
    IF function_call_depths.exc # "none"
    THEN Raised(function_call_depths.exc)
    ELSE IF "Fuzzer filename" \notin DOMAIN data_dict_yaml
         THEN Raised("KeyError")
         ELSE IF "All functions" \notin DOMAIN data_dict_yaml
              THEN Raised("KeyError")
              ELSE IF "Elements" \notin DOMAIN data_dict_yaml["All functions"]
                   THEN Raised("KeyError")
                   ELSE Result(
                           [function_call_depths |-> function_call_depths.value,
                            fuzzer_information |->
                                [functionSourceFile |-> data_dict_yaml["Fuzzer filename"]],
                            all_function_data |->
                                data_dict_yaml["All functions"]["Elements"],
                            funcsReachedByFuzzer |-> None])

\* lines 108-116
FuzzerProfileInit(flog, data_dict_yaml) ==
    FuzzerProfileOfYaml(data_file_read_calltree(flog), data_dict_yaml)

\* lines 217-219: the profile in a list of one, unless the constructor raised
ReturnProfile(profile) ==
    IF profile.exc # "none"
    THEN Raised(profile.exc)
    ELSE Result(Some(profile.value))

\* lines 202-219: None, or the profile in a list of one
read_fuzzer_data_file_to_profile(data_file) ==
    IF data_file.data = None \/ data_file.yaml = None
    THEN Result(None)
    ELSE LET data_dict_yaml == data_file_read_all_function_data_yaml(data_file.yaml[1])
         IN IF data_dict_yaml = None
            THEN Result(None)
            ELSE ReturnProfile(FuzzerProfileInit(data_file.data[1], data_dict_yaml[1]))

\* the documents of the .yaml files: the plugin's output, whole or lacking a key
YamlDocuments ==
    LET filename == <<"fuzz.c">>
        functions == [Elements |-> <<1>>]
    IN {Some([x \in {"Fuzzer filename", "All functions"} |->
                IF x = "Fuzzer filename" THEN filename ELSE functions]),
        Some([x \in {"All functions"} |-> functions]),
        Some([x \in {"Fuzzer filename"} |-> filename]),
        Some([x \in {"Fuzzer filename", "All functions"} |->
                IF x = "Fuzzer filename" THEN filename ELSE <<>>]),
        None}

YamlFiles ==
    {None, Some([wellformed |-> FALSE, document |-> None])}
        \cup {Some([wellformed |-> TRUE, document |-> d]) : d \in YamlDocuments}

\* the .data files: none, the empty file, a call tree of two lines
DataFiles ==
    [data : {None, Some(<<>>),
             Some(<<MarkerLine,
                    TreeLine(0, foo, <<"a.c">>, <<"linenumber=", ToString(1)>>),
                    TreeLine(MaxDepth, bar, <<"a.c">>, <<"linenumber=", ToString(1)>>),
                    TerminatorLine>>)},
     yaml : YamlFiles]

InitLoad ==
    /\ fds = <<FunctionRecord(LLVMFuzzerTestOneInput, MaxCC, <<>>)>>
    /\ profiles = <<>>
    /\ merged = <<>>
    /\ calls = <<>>

\* lines 374-376, once line 374 has called read_fuzzer_data_file_to_profile
AppendProfile(data_file, profile) ==
    /\ profiles' = IF profile.exc = "none" /\ profile.value # None
                   THEN Append(profiles, profile.value[1])
                   ELSE profiles
    /\ calls' = Append(calls, [op |-> "read_fuzzer_data_file_to_profile",
                               input |-> data_file,
                               exc |-> profile.exc,
                               value |-> profile.value])

\* lines 372-376: the body of the loop for the next data file of the folder
LoadDataFile ==
    /\ Len(calls) < MaxDataFiles
    /\ \A k \in DOMAIN calls : calls[k].exc = "none"
    /\ \E data_file \in DataFiles :
          AppendProfile(data_file, read_fuzzer_data_file_to_profile(data_file))
    /\ UNCHANGED <<fds, merged>>

NextLoad == LoadDataFile

SpecLoad == InitLoad /\ [][NextLoad]_vars

(***************************************************************************)
(* Vocabulary of the properties.                                           *)
(***************************************************************************)
IsConstructed(m) == calls[m].op = "MergedProjectProfile"

IsCloneOf(c, P) ==
    /\ calls[c].op = "add_func_to_reached_and_clone"
    /\ calls[c].merged_profile_old = P

IsClone(c) == calls[c].op = "add_func_to_reached_and_clone"

\* the i-th entry of merged[m].all_functions
Entry(m, i) == fds[merged[m].all_functions[i]]

Entries(m) == DOMAIN merged[m].all_functions

\* the function record a clone call was given
TargetOf(c) == fds[calls[c].func_dict_old]

\* the records of the tables of the profiles merged[m] holds
TablesOf(m) ==
    UNION {Range(profiles[q]["all_function_data"]) : q \in Range(merged[m].profiles)}

\* some MergedProjectProfile object created after merged[m] was built over a
\* table that holds a record of merged[m].all_functions: its constructor wrote
\* to that record
Rewritten(m) ==
    \E m2 \in DOMAIN merged :
        /\ m2 > m
        /\ TablesOf(m2) \cap Range(merged[m].all_functions) # {}

\* everything merged[P] consists of: the object, the records and the profiles
\* it reaches
DeepValue(P) ==
    [self |-> merged[P],
     records |-> [fd \in RecordsOf(fds, profiles, merged[P]) |-> fds[fd]],
     profs |-> [q \in Range(merged[P].profiles) |-> profiles[q]]]

\* the fields the merge pass derives
Derived(fd) ==
    <<fd["hitcount"], fd["incoming_references"],
      fd["total_cyclomatic_complexity"], fd["new_unreached_complexity"]>>

\* the step is a call, and this is the call
IsCall == Len(calls') = Len(calls) + 1

TheCall == calls'[Len(calls')]

(***************************************************************************)
(* C1                                                                      *)
(***************************************************************************)
\* C1: in a profile built by MergedProjectProfile(profiles), the hitcount of
\* every entry of all_functions is the number of profiles of the list whose
\* funcsReachedByFuzzer holds the entry's name, so 0 <= hitcount <= len(profiles)
C1_HitcountCountsReachingProfiles ==
    \A m \in DOMAIN merged :
        (IsConstructed(m) /\ ~Rewritten(m)) =>
            \A i \in Entries(m) :
                LET reaching ==
                        {k \in DOMAIN merged[m].profiles :
                            Entry(m, i)["functionName"] \in
                                Range(profiles[merged[m].profiles[k]]["funcsReachedByFuzzer"][1])}
                IN /\ Entry(m, i)["hitcount"] = Cardinality(reaching)
                   /\ 0 <= Entry(m, i)["hitcount"]
                   /\ Entry(m, i)["hitcount"] <= Len(merged[m].profiles)

\* a profile built over two profiles with an entry both reach and one none reaches
C1_Witness ==
    \E m \in DOMAIN merged :
        /\ IsConstructed(m) /\ ~Rewritten(m)
        /\ Len(merged[m].profiles) = 2
        /\ \E i, j \in Entries(m) :
              Entry(m, i)["hitcount"] = 2 /\ Entry(m, j)["hitcount"] = 0

(***************************************************************************)
(* C2                                                                      *)
(***************************************************************************)
\* the names of functions_reached that have an entry in all_functions
RetainedReached(m) ==
    {n \in merged[m].functions_reached :
        \E i \in Entries(m) : Entry(m, i)["functionName"] = n}

\* C2 as claimed: in every merged profile the number of entries with
\* hitcount > 0 is the size of functions_reached
C2_Original ==
    \A m \in DOMAIN merged :
        ~Rewritten(m) =>
            get_total_reached_function_count(fds, merged[m])
                = Cardinality(merged[m].functions_reached)

\* C2 as amended: in a profile built by the constructor the number of entries
\* with hitcount > 0 is the number of names of functions_reached that have an
\* entry in all_functions, so it is at most the size of functions_reached; a
\* clone has the functions_reached of its source and at least as many entries
\* with hitcount > 0
C2_ReachedCountAmended ==
    /\ \A m \in DOMAIN merged :
          (IsConstructed(m) /\ ~Rewritten(m)) =>
              /\ get_total_reached_function_count(fds, merged[m])
                    = Cardinality(RetainedReached(m))
              /\ get_total_reached_function_count(fds, merged[m])
                    <= Cardinality(merged[m].functions_reached)
    /\ \A c, P \in DOMAIN merged :
          (IsCloneOf(c, P) /\ ~Rewritten(c) /\ ~Rewritten(P)) =>
              /\ merged[c].functions_reached = merged[P].functions_reached
              /\ get_total_reached_function_count(fds, merged[c])
                    >= get_total_reached_function_count(fds, merged[P])

\* a constructed profile with a reached name that has no entry, and a clone of
\* it with more hit entries than names in functions_reached
C2_Witness ==
    \E c, P \in DOMAIN merged :
        /\ IsCloneOf(c, P) /\ IsConstructed(P)
        /\ ~Rewritten(c) /\ ~Rewritten(P)
        /\ get_total_reached_function_count(fds, merged[P])
              < Cardinality(merged[P].functions_reached)
        /\ get_total_reached_function_count(fds, merged[c])
              > get_total_reached_function_count(fds, merged[P])

(***************************************************************************)
(* C3                                                                      *)
(***************************************************************************)
\* the entries of merged[m] named in the functionsReached of its i-th entry
ListedBy(m, i) ==
    {j \in Entries(m) :
        Entry(m, j)["functionName"] \in Range(Entry(m, i)["functionsReached"])}

\* C3: in every merged profile, new_unreached_complexity of an entry is the
\* sum of CyclomaticComplexity over the entries named in its functionsReached
\* whose hitcount is 0, plus its own CyclomaticComplexity exactly when its own
\* hitcount is 0
C3_NewUnreachedComplexity ==
    \A m \in DOMAIN merged :
        ~Rewritten(m) =>
            \A i \in Entries(m) :
                LET unhit == {j \in ListedBy(m, i) : Entry(m, j)["hitcount"] = 0}
                    own == IF Entry(m, i)["hitcount"] = 0
                           THEN Entry(m, i)["CyclomaticComplexity"] ELSE 0
                IN Entry(m, i)["new_unreached_complexity"]
                      = SumOver([j \in unhit |-> Entry(m, j)["CyclomaticComplexity"]],
                                unhit) + own

\* foo reaches bar: both unhit in P, where foo has its own complexity plus
\* bar's; bar hit in the clone, where foo keeps its own complexity only
C3_Witness ==
    \E c, P \in DOMAIN merged :
        /\ IsCloneOf(c, P) /\ ~Rewritten(c) /\ ~Rewritten(P)
        /\ \E i, j \in Entries(P) :
              /\ i # j
              /\ j \in ListedBy(P, i)
              /\ Entry(P, i)["hitcount"] = 0 /\ Entry(P, j)["hitcount"] = 0
              /\ Entry(P, i)["new_unreached_complexity"]
                    = Entry(P, i)["CyclomaticComplexity"]
                        + Entry(P, j)["CyclomaticComplexity"]
              /\ Entry(c, i)["hitcount"] = 0 /\ Entry(c, j)["hitcount"] = 1
              /\ Entry(c, i)["new_unreached_complexity"]
                    = Entry(c, i)["CyclomaticComplexity"]

(***************************************************************************)
(* C4                                                                      *)
(***************************************************************************)
\* C4: in every merged profile, total_cyclomatic_complexity of an entry is its
\* own CyclomaticComplexity plus the sum of CyclomaticComplexity over the
\* entries named in its functionsReached; with no callees it is its own
C4_TotalCyclomaticComplexity ==
    \A m \in DOMAIN merged :
        ~Rewritten(m) =>
            \A i \in Entries(m) :
                /\ Entry(m, i)["total_cyclomatic_complexity"]
                      = Entry(m, i)["CyclomaticComplexity"]
                          + SumOver([j \in ListedBy(m, i) |->
                                        Entry(m, j)["CyclomaticComplexity"]],
                                    ListedBy(m, i))
                /\ Entry(m, i)["functionsReached"] = <<>> =>
                      Entry(m, i)["total_cyclomatic_complexity"]
                          = Entry(m, i)["CyclomaticComplexity"]

\* a profile with an entry without callees and an entry that reaches another
C4_Witness ==
    \E m \in DOMAIN merged :
        /\ ~Rewritten(m)
        /\ \E i, j, k \in Entries(m) :
              /\ Entry(m, k)["functionsReached"] = <<>>
              /\ i # j /\ j \in ListedBy(m, i)
              /\ Entry(m, i)["total_cyclomatic_complexity"]
                    > Entry(m, i)["CyclomaticComplexity"]

(***************************************************************************)
(* C5                                                                      *)
(***************************************************************************)
\* the call is MergedProjectProfile over profiles that merged[c] holds: the
\* constructor writes hitcount and the derived fields of merged[c]'s records
MutatesClone(c) ==
    /\ TheCall.op = "MergedProjectProfile"
    /\ TheCall.profiles # <<>>
    /\ Range(TheCall.profiles) \subseteq Range(merged[c].profiles)

\* no constructor call has tied merged[P] to a record of merged[c]'s tables
\* (a constructor run over profiles of both stores references to the records
\* of one in the records of the other, lines 272-277)
Apart(P, c) ==
    RecordsOf(fds, profiles, merged[P]) \cap TablesOf(c) = {}

\* C5: add_func_to_reached_and_clone(P, F) leaves P as it was: the object,
\* every record and every fuzzer profile P reaches are equal before and after
\* the call, and before and after any later call that mutates the clone
C5_CloneLeavesOriginalUnmodified ==
    [][\A P \in DOMAIN merged :
          (/\ IsCall
           /\ \/ (TheCall.op = "add_func_to_reached_and_clone"
                    /\ TheCall.merged_profile_old = P)
              \/ \E c \in DOMAIN merged :
                    IsCloneOf(c, P) /\ Apart(P, c) /\ MutatesClone(c))
            => DeepValue(P)' = DeepValue(P)]_vars

\* a clone that differs from its original in a hitcount, mutated after the
\* call by a constructor run over the clone's own profiles
C5_Witness ==
    \E c, P, m \in DOMAIN merged :
        /\ IsCloneOf(c, P)
        /\ m > c
        /\ IsConstructed(m)
        /\ calls[m].profiles # <<>>
        /\ Range(calls[m].profiles) \subseteq Range(merged[c].profiles)
        /\ Apart(P, c)
        /\ \E i \in Entries(P) :
              Entry(P, i)["hitcount"] = 0 /\ Entry(c, i)["hitcount"] # 0

(***************************************************************************)
(* C6                                                                      *)
(***************************************************************************)
\* C6 as claimed: in the clone returned for a function record F, the entry
\* named as F and every entry named in F's functionsReached has hitcount >= 1
C6_Original ==
    \A c \in DOMAIN merged :
        (IsClone(c) /\ ~Rewritten(c)) =>
            \A i \in Entries(c) :
                (\/ Entry(c, i)["functionName"] = TargetOf(c)["functionName"]
                 \/ Entry(c, i)["functionName"]
                        \in Range(TargetOf(c)["functionsReached"]))
                    => Entry(c, i)["hitcount"] >= 1

\* C6 as amended: in the clone returned for a function record F, the entry
\* named as F has hitcount >= 1 when its CyclomaticComplexity is F's, as it is
\* when F is an entry of the profile, and every entry named in F's
\* functionsReached has hitcount >= 1
C6_TargetAndReachedAreHit ==
    \A c \in DOMAIN merged :
        (IsClone(c) /\ ~Rewritten(c)) =>
            \A i \in Entries(c) :
                (\/ /\ Entry(c, i)["functionName"] = TargetOf(c)["functionName"]
                    /\ Entry(c, i)["CyclomaticComplexity"]
                          = TargetOf(c)["CyclomaticComplexity"]
                 \/ Entry(c, i)["functionName"]
                        \in Range(TargetOf(c)["functionsReached"]))
                    => Entry(c, i)["hitcount"] >= 1

\* a clone for an entry F of the profile: F and another entry F reaches were
\* unhit in the original and are hit in the clone
C6_Witness ==
    \E c, P \in DOMAIN merged :
        /\ IsCloneOf(c, P) /\ ~Rewritten(c) /\ ~Rewritten(P)
        /\ calls[c].func_dict_old \in Range(merged[P].all_functions)
        /\ \E i, j \in Entries(c) :
              /\ i # j
              /\ merged[P].all_functions[i] = calls[c].func_dict_old
              /\ Entry(c, j)["functionName"]
                    \in Range(TargetOf(c)["functionsReached"])
              /\ Entry(P, i)["hitcount"] = 0 /\ Entry(P, j)["hitcount"] = 0
              /\ Entry(c, i)["hitcount"] = 1 /\ Entry(c, j)["hitcount"] = 1

(***************************************************************************)
(* C7                                                                      *)
(***************************************************************************)
\* C7 as claimed: no hitcount of the clone is below its hitcount in the
\* original, and an entry whose hitcount was >= 1, the target included, keeps
\* its hitcount
C7_Original ==
    \A c, P \in DOMAIN merged :
        (IsCloneOf(c, P) /\ ~Rewritten(c) /\ ~Rewritten(P)) =>
            \A i \in Entries(P) :
                /\ Entry(c, i)["hitcount"] >= Entry(P, i)["hitcount"]
                /\ Entry(P, i)["hitcount"] >= 1 =>
                      Entry(c, i)["hitcount"] = Entry(P, i)["hitcount"]

(***************************************************************************)
(* C8                                                                      *)
(***************************************************************************)
\* C8: from a constructed profile on, along clone calls each applied to the
\* previous result, new_unreached_complexity of no function grows from a
\* profile to its clone
C8_NewUnreachedComplexityNonIncreasing ==
    \A c, P \in DOMAIN merged :
        (IsCloneOf(c, P) /\ ~Rewritten(c) /\ ~Rewritten(P)) =>
            \A i \in Entries(P) :
                Entry(c, i)["new_unreached_complexity"]
                    <= Entry(P, i)["new_unreached_complexity"]

\* a constructed profile, its clone and the clone's clone, with a function
\* whose new_unreached_complexity falls at each of the two calls
C8_Witness ==
    \E M, c1, c2 \in DOMAIN merged :
        /\ IsConstructed(M) /\ IsCloneOf(c1, M) /\ IsCloneOf(c2, c1)
        /\ ~Rewritten(M) /\ ~Rewritten(c1) /\ ~Rewritten(c2)
        /\ \E i \in Entries(M) :
              /\ Entry(c1, i)["new_unreached_complexity"]
                    < Entry(M, i)["new_unreached_complexity"]
              /\ Entry(c2, i)["new_unreached_complexity"]
                    < Entry(c1, i)["new_unreached_complexity"]

(***************************************************************************)
(* C9                                                                      *)
(***************************************************************************)
\* C9 as claimed: constructing another MergedProjectProfile leaves hitcount,
\* incoming_references, total_cyclomatic_complexity and
\* new_unreached_complexity of every entry of a constructed profile unchanged
C9_Original ==
    [][(IsCall /\ TheCall.op = "MergedProjectProfile") =>
          \A m \in DOMAIN merged :
              IsConstructed(m) =>
                  \A i \in Entries(m) :
                      Derived(fds'[merged[m].all_functions[i]])
                          = Derived(fds[merged[m].all_functions[i]])]_vars

(***************************************************************************)
(* C10                                                                     *)
(***************************************************************************)
\* C10 as claimed: MergedProjectProfile called with an empty list fails, it
\* returns no profile with empty all_functions, functions_reached and
\* unreached_functions
C10_Original ==
    \A m \in DOMAIN merged :
        ~(/\ IsConstructed(m)
          /\ calls[m].profiles = <<>>
          /\ merged[m].all_functions = <<>>
          /\ merged[m].functions_reached = {}
          /\ merged[m].unreached_functions = {})

(***************************************************************************)
(* C11                                                                     *)
(***************************************************************************)
\* the profiles of the list merged[m] was built from
ProfilesOf(m) == {profiles[q] : q \in Range(merged[m].profiles)}

\* the names the tables of the profiles of merged[m] declare
DeclaredIn(m) == {fds[fd]["functionName"] : fd \in TablesOf(m)}

\* C11: after MergedProjectProfile(profiles) a name is in functions_reached
\* if and only if at least one profile of the list reaches it
C11_FunctionsReachedIsUnion ==
    \A m \in DOMAIN merged :
        IsConstructed(m) =>
            \A n \in merged[m].functions_reached \cup DeclaredIn(m)
                        \cup {foo, bar, sanitizer_cov, llvm_memcpy} :
                n \in merged[m].functions_reached
                    <=> \E p \in ProfilesOf(m) : In(n, p["funcsReachedByFuzzer"][1])

\* a profile built over two profiles that reach different names, one of them
\* a name only the first reaches and one a name only the second reaches
C11_Witness ==
    \E m \in DOMAIN merged :
        /\ IsConstructed(m)
        /\ Len(merged[m].profiles) = 2
        /\ LET p1 == profiles[merged[m].profiles[1]]
               p2 == profiles[merged[m].profiles[2]]
           IN /\ In(foo, p1["funcsReachedByFuzzer"][1])
              /\ ~In(foo, p2["funcsReachedByFuzzer"][1])
              /\ In(bar, p2["funcsReachedByFuzzer"][1])
              /\ ~In(bar, p1["funcsReachedByFuzzer"][1])
              /\ {foo, bar} \subseteq merged[m].functions_reached

(***************************************************************************)
(* C12                                                                     *)
(***************************************************************************)
\* C12: after MergedProjectProfile(profiles), unreached_functions is the union
\* of the profiles' unreached lists minus functions_reached, and it is disjoint
\* from functions_reached
C12_UnreachedIsUnionMinusReached ==
    \A m \in DOMAIN merged :
        IsConstructed(m) =>
            /\ merged[m].unreached_functions
                  = UNION {Range(p["funcsUnreachedByFuzzer"]) : p \in ProfilesOf(m)}
                        \ merged[m].functions_reached
            /\ merged[m].unreached_functions \cap merged[m].functions_reached = {}

\* a function one fuzzer leaves unreached and another reaches, next to a
\* function that stays unreached
C12_Witness ==
    \E m \in DOMAIN merged :
        /\ IsConstructed(m)
        /\ \E p1, p2 \in ProfilesOf(m) :
              /\ In(foo, p1["funcsUnreachedByFuzzer"])
              /\ In(foo, p2["funcsReachedByFuzzer"][1])
        /\ foo \notin merged[m].unreached_functions
        /\ merged[m].unreached_functions # {}

(***************************************************************************)
(* C13                                                                     *)
(***************************************************************************)
\* the first record named n in the tables of the list of merged[m], in input order
FirstDeclared(m, n) ==
    LET work == WorkList(profiles, merged[m].profiles)
        first == CHOOSE i \in DOMAIN work :
                    /\ fds[work[i]]["functionName"] = n
                    /\ \A j \in 1..(i - 1) : fds[work[j]]["functionName"] # n
    IN work[first]

\* C13: in every merged profile no two entries of all_functions have the same
\* functionName, and in a constructed profile the entry of a name is the record
\* of the first profile of the list that declares it
C13_OneEntryPerNameFirstWins ==
    \A m \in DOMAIN merged :
        /\ \A i, j \in Entries(m) :
              Entry(m, i)["functionName"] = Entry(m, j)["functionName"] => i = j
        /\ IsConstructed(m) =>
              \A i \in Entries(m) :
                  merged[m].all_functions[i]
                      = FirstDeclared(m, Entry(m, i)["functionName"])

\* two profiles declare foo with different complexities and the entrypoint:
\* one entry each, foo's is the first profile's record
C13_Witness ==
    \E m \in DOMAIN merged :
        /\ IsConstructed(m)
        /\ Len(merged[m].profiles) = 2
        /\ LET t1 == profiles[merged[m].profiles[1]]["all_function_data"]
               t2 == profiles[merged[m].profiles[2]]["all_function_data"]
           IN \E a \in Range(t1), b \in Range(t2) :
                /\ fds[a]["functionName"] = foo /\ fds[b]["functionName"] = foo
                /\ fds[a]["CyclomaticComplexity"] # fds[b]["CyclomaticComplexity"]
                /\ a \in Range(merged[m].all_functions)
                /\ b \notin Range(merged[m].all_functions)
                /\ Len(merged[m].all_functions) = 2

(***************************************************************************)
(* C14                                                                     *)
(***************************************************************************)
\* C14: after MergedProjectProfile(profiles), all_functions has no entry whose
\* name contains "sanitizer" or "llvm" and has an entry for every other name
\* a profile of the list declares
C14_RuntimeNamesExcluded ==
    \A m \in DOMAIN merged :
        IsConstructed(m) =>
            LET names == {Entry(m, i)["functionName"] : i \in Entries(m)}
            IN /\ \A n \in names :
                    ~Contains(n, sanitizer) /\ ~Contains(n, llvm)
               /\ \A n \in DeclaredIn(m) :
                    (~Contains(n, sanitizer) /\ ~Contains(n, llvm)) => n \in names

\* a list whose tables declare a sanitizer name, an llvm name and the
\* entrypoint: only the entrypoint has an entry
C14_Witness ==
    \E m \in DOMAIN merged :
        /\ IsConstructed(m)
        /\ {sanitizer_cov, llvm_memcpy, LLVMFuzzerTestOneInput} \subseteq DeclaredIn(m)
        /\ {Entry(m, i)["functionName"] : i \in Entries(m)} = {LLVMFuzzerTestOneInput}

(***************************************************************************)
(* C15                                                                     *)
(***************************************************************************)
\* C15 as claimed: after MergedProjectProfile(profiles), incoming_references
\* of an entry is the list of the other entries whose functionsReached holds
\* its name, and the entry is never one of its own incoming references
C15_Original ==
    \A m \in DOMAIN merged :
        (IsConstructed(m) /\ ~Rewritten(m)) =>
            \A i \in Entries(m) :
                /\ Entry(m, i)["incoming_references"]
                      = SelectSeq(merged[m].all_functions,
                                  LAMBDA fd2 :
                                      /\ fd2 # merged[m].all_functions[i]
                                      /\ In(Entry(m, i)["functionName"],
                                            fds[fd2]["functionsReached"]))
                /\ ~In(merged[m].all_functions[i], Entry(m, i)["incoming_references"])

(***************************************************************************)
(* Vocabulary of the properties of accummulate_profile.                    *)
(***************************************************************************)
\* the profile the call runs on
Self == profiles[1]

\* the first k methods of the call have run and returned
Ran(k) == Len(calls) >= k /\ \A i \in 1..k : calls[i].exc = "none"

\* the names the function table declares
TableNames == {fds[i]["functionName"] : i \in DOMAIN fds}

\* what the function table says the function named n reaches: a later element
\* of a name replaces an earlier one
TableReached(n) ==
    LET last == CHOOSE i \in DOMAIN fds :
                    /\ fds[i]["functionName"] = n
                    /\ \A j \in (i + 1)..Len(fds) : fds[j]["functionName"] # n
    IN fds[last]["functionsReached"]

\* attr summed over the names of the reached list that have a record
TotalOfRecorded(attr) ==
    LET acf == Self["all_class_functions"]
        reached == Self["functions_reached_by_fuzzer"]
        recorded == {i \in DOMAIN reached : reached[i] \in TableNames}
    IN SumOver([i \in recorded |-> acf.value[reached[i]][attr]], recorded)

(***************************************************************************)
(* C16                                                                     *)
(***************************************************************************)
\* C16 as claimed: after accummulate_profile of datatypes/fuzzer_profile.py,
\* functions_reached_by_fuzzer and functions_unreached_by_fuzzer are disjoint
\* and their union is the key set of all_class_functions, whatever the table
\* and the reached list of the entrypoint
C16_Original ==
    (IsDatatypes(Self) /\ Ran(2)) =>
        LET reached == Range(Self["functions_reached_by_fuzzer"])
            unreached == Range(Self["functions_unreached_by_fuzzer"])
        IN /\ reached \cap unreached = {}
           /\ reached \cup unreached = Range(Self["all_class_functions"].keys)

(***************************************************************************)
(* C17                                                                     *)
(***************************************************************************)
\* C17 as claimed: in datatypes/fuzzer_profile.py a reached name without a
\* record is skipped silently: once the reached set is resolved no method of
\* accummulate_profile raises KeyError, and the two totals are the sums of
\* bb_count and cyclomatic_complexity over the reached names that have a record
C17_Original ==
    (IsDatatypes(Self) /\ Ran(1)) =>
        /\ \A i \in DOMAIN calls : calls[i].exc # "KeyError"
        /\ Ran(5) => Self["total_basic_blocks"] = TotalOfRecorded("bb_count")
        /\ Ran(6) => Self["total_cyclomatic_complexity"]
                        = TotalOfRecorded("cyclomatic_complexity")

(***************************************************************************)
(* C18                                                                     *)
(***************************************************************************)
\* C18 as claimed: in both FuzzerProfile classes, when the function table
\* (here one that declares some function) has no entrypoint function the
\* first method of accummulate_profile raises, the reached set is not
\* defaulted to empty and no later method runs
C18_Original ==
    (/\ calls # <<>>
     /\ fds # <<>>
     /\ \A n \in TableNames : ~Contains(n, TestOneInput)) =>
        /\ Len(calls) = 1
        /\ calls[1].exc # "none"

(***************************************************************************)
(* C19                                                                     *)
(***************************************************************************)
\* C19: once _set_all_reached_functions of datatypes/fuzzer_profile.py has
\* returned, functions_reached_by_fuzzer is the functions_reached of
\* LLVMFuzzerTestOneInput if the table declares that name, wherever other
\* names containing "TestOneInput" stand, and otherwise the functions_reached
\* of the first name of the table, in insertion order, that contains it
C19_EntrypointResolution ==
    (IsDatatypes(Self) /\ Ran(1)) =>
        IF LLVMFuzzerTestOneInput \in TableNames
        THEN Self["functions_reached_by_fuzzer"] = TableReached(LLVMFuzzerTestOneInput)
        ELSE \E i \in DOMAIN fds :
                /\ Contains(fds[i]["functionName"], TestOneInput)
                /\ \A j \in 1..(i - 1) : ~Contains(fds[j]["functionName"], TestOneInput)
                /\ Self["functions_reached_by_fuzzer"]
                      = TableReached(fds[i]["functionName"])

\* a table where a name containing "TestOneInput" and reaching other functions
\* comes before LLVMFuzzerTestOneInput, resolved to what the latter reaches
C19_Witness ==
    /\ IsDatatypes(Self) /\ Ran(1)
    /\ \E i, j \in DOMAIN fds :
          /\ i < j
          /\ fds[i]["functionName"] = TestOneInput
          /\ fds[j]["functionName"] = LLVMFuzzerTestOneInput
          /\ TableReached(TestOneInput) # TableReached(LLVMFuzzerTestOneInput)
          /\ Self["functions_reached_by_fuzzer"] = TableReached(LLVMFuzzerTestOneInput)

(***************************************************************************)
(* C20                                                                     *)
(***************************************************************************)
\* reached set, unreached set, coverage load, file targets, basic-block total,
\* cyclomatic-complexity total, as the class of the profile names them
SixSteps ==
    IF IsDatatypes(Self)
    THEN <<"_set_all_reached_functions", "_set_all_unreached_functions",
           "_load_coverage", "_set_file_targets",
           "_set_total_basic_blocks", "_set_total_cyclomatic_complexity">>
    ELSE <<"set_all_reached_functions", "set_all_unreached_functions",
           "correlate_runtime_coverage_with_reachability", "get_file_targets",
           "get_total_basic_blocks", "get_total_cyclomatic_complexity">>

\* the reached set is an attribute holding a list
ReachedIsSet ==
    IF IsDatatypes(Self)
    THEN "functions_reached_by_fuzzer" \in DOMAIN Self
    ELSE Self["funcsReachedByFuzzer"] # None

\* C20: one call of accummulate_profile runs its methods in the order reached
\* set, unreached set, coverage load, file targets, basic-block total,
\* cyclomatic-complexity total, none twice, all six when the call returns; the
\* reached set is set whenever a method that reads it (the second, the fifth,
\* the sixth) is about to run, and no method fails on an unset field
C20_SixStepsInOrder ==
    /\ Len(calls) <= 6
    /\ \A i \in DOMAIN calls :
          /\ calls[i].op = SixSteps[i]
          /\ calls[i].exc \notin {"AttributeError", "TypeError"}
    /\ (Running /\ Len(calls) \in {1, 4, 5}) => ReachedIsSet
    /\ (~Running /\ \A i \in DOMAIN calls : calls[i].exc = "none") =>
          [i \in DOMAIN calls |-> calls[i].op] = SixSteps

\* a call on a datatypes profile that has returned: all six methods ran, the
\* table has reached and unreached functions and the totals are set
C20_Witness ==
    /\ IsDatatypes(Self) /\ Ran(6)
    /\ Self["functions_reached_by_fuzzer"] # <<>>
    /\ Self["functions_unreached_by_fuzzer"] # <<>>
    /\ Self["total_cyclomatic_complexity"] > 0
    /\ Self["file_targets"] # <<>>

(***************************************************************************)
(* C21                                                                     *)
(***************************************************************************)
\* C21 as claimed: _load_coverage of datatypes/fuzzer_profile.py never fails
\* the profile: for every target_lang it returns, with a coverage object
\* stored or coverage left absent, and the call goes on to the later methods
C21_Original ==
    (IsDatatypes(Self) /\ Ran(2) /\ Len(calls) >= 3) =>
        /\ calls[3].op = "_load_coverage"
        /\ calls[3].exc = "none"
        /\ Running \/ Len(calls) > 3

(***************************************************************************)
(* C29                                                                     *)
(***************************************************************************)
\* C29 as claimed: in every merged profile, new_unreached_complexity of an
\* entry is at most the sum of CyclomaticComplexity over the entries with
\* hitcount 0, and total_cyclomatic_complexity of an entry is at most the sum
\* of CyclomaticComplexity over all entries, also when the entry lists itself
\* in its functionsReached
C29_Original ==
    \A m \in DOMAIN merged :
        ~Rewritten(m) =>
            LET unhit == {j \in Entries(m) : Entry(m, j)["hitcount"] = 0}
                cc == [j \in Entries(m) |-> Entry(m, j)["CyclomaticComplexity"]]
            IN \A i \in Entries(m) :
                  /\ Entry(m, i)["new_unreached_complexity"] <= SumOver(cc, unhit)
                  /\ Entry(m, i)["total_cyclomatic_complexity"]
                        <= SumOver(cc, Entries(m))

(***************************************************************************)
(* C30                                                                     *)
(***************************************************************************)
\* C30: for a merged profile P and two function records X and Y of P, the
\* clone for X then Y and the clone for Y then X have the same functions, each
\* with the same hitcount, new_unreached_complexity and
\* total_cyclomatic_complexity
C30_CloneCommutes ==
    Len(merged) = 5 =>
        /\ Entries(4) = Entries(5)
        /\ \A i \in Entries(4) :
              /\ Entry(4, i)["functionName"] = Entry(5, i)["functionName"]
              /\ Entry(4, i)["hitcount"] = Entry(5, i)["hitcount"]
              /\ Entry(4, i)["new_unreached_complexity"]
                    = Entry(5, i)["new_unreached_complexity"]
              /\ Entry(4, i)["total_cyclomatic_complexity"]
                    = Entry(5, i)["total_cyclomatic_complexity"]

\* X and Y are two entries of P, unhit in P, X reaches Y: the clones for X
\* and for Y differ in X's hitcount, the clones for both agree
C30_Witness ==
    /\ Len(merged) = 5
    /\ \E i, j \in Entries(1) :
          /\ i # j
          /\ merged[1].all_functions[i] = calls[2].func_dict_old
          /\ merged[1].all_functions[j] = calls[3].func_dict_old
          /\ Entry(1, j)["functionName"] \in Range(Entry(1, i)["functionsReached"])
          /\ Entry(1, i)["hitcount"] = 0 /\ Entry(1, j)["hitcount"] = 0
          /\ Entry(2, i)["hitcount"] = 1 /\ Entry(3, i)["hitcount"] = 0
          /\ Entry(4, i)["hitcount"] = 1 /\ Entry(5, i)["hitcount"] = 1
          /\ Entry(4, j)["hitcount"] = 1 /\ Entry(5, j)["hitcount"] = 1

(***************************************************************************)
(* C22                                                                     *)
(***************************************************************************)
\* C22: get_cov_metrics and get_cov_uncovered_reachable_funcs never raise;
\* get_cov_metrics returns (None, None, None) when coverage is absent, when
\* the summary of the function holds a None, and when the reported total line
\* count is 0; get_cov_uncovered_reachable_funcs returns [] when coverage is
\* absent
C22_CoverageQueriesNeverRaise ==
    \A k \in DOMAIN calls :
        LET call == calls[k]
            coverage == profiles[1].coverage
        IN /\ call.exc = "none"
           /\ (call.op = "get_cov_metrics" /\ coverage = None)
                 => call.value = <<None, None, None>>
           /\ (call.op = "get_cov_metrics" /\ coverage # None)
                 => LET summary == coverage[1][call.funcname]
                    IN (summary[1] = None \/ summary[2] = None \/ summary[1] = Some(0))
                          => call.value = <<None, None, None>>
           /\ (call.op = "get_cov_uncovered_reachable_funcs" /\ coverage = None)
                 => call.value = <<>>

\* one query of a function whose summary reports 0 lines, one of a function
\* whose summary reports None
C22_Witness ==
    /\ Len(calls) = 2
    /\ profiles[1].coverage # None
    /\ calls[1].op = "get_cov_metrics" /\ calls[2].op = "get_cov_metrics"
    /\ profiles[1].coverage[1][calls[1].funcname] = <<Some(0), Some(0)>>
    /\ profiles[1].coverage[1][calls[2].funcname] = <<None, None>>
    /\ calls[1].value = <<None, None, None>>
    /\ calls[2].value = <<None, None, None>>

(***************************************************************************)
(* Vocabulary of the properties of the call tree.                          *)
(***************************************************************************)
\* data_file_read_calltree has been called
HasRead == Len(calls) >= 1 /\ calls[1].op = "data_file_read_calltree"

\* and has returned its list of nodes
HasReturned == HasRead /\ calls[1].exc = "none"

\* the lines of the call tree section of a file: those between the first
\* "Call tree" line and the terminator line that follows it, if any
SectionOf(flog) ==
    LET markers == {i \in DOMAIN flog : flog[i] = MarkerLine}
    IN IF markers = {} THEN <<>>
       ELSE LET m == CHOOSE i \in markers : \A j \in markers : i <= j
                ends == {j \in DOMAIN flog : j > m /\ flog[j] = TerminatorLine}
                e == IF ends = {} THEN Len(flog) + 1
                     ELSE CHOOSE i \in ends : \A j \in ends : i <= j
            IN SubSeq(flog, m + 1, e - 1)

\* the tokens of a line of the section
TokensOf(line) == split(strip(Remove(line, "\n")))

\* the node of every line of a section whose lines all parse
NodesOf(section) ==
    [i \in DOMAIN section |-> curr_node(Remove(section[i], "\n")).value]

\* line i of the section begins a depth-group
BeginsGroup(nodes, i) == i = 1 \/ nodes[i].depth # nodes[i - 1].depth

\* the first and the last line of the depth-group of line i
GroupFirst(nodes, i) ==
    CHOOSE a \in 1..i :
        /\ BeginsGroup(nodes, a)
        /\ \A k \in (a + 1)..i : ~BeginsGroup(nodes, k)

GroupLast(nodes, i) ==
    CHOOSE b \in i..Len(nodes) :
        /\ b = Len(nodes) \/ BeginsGroup(nodes, b + 1)
        /\ \A k \in (i + 1)..b : ~BeginsGroup(nodes, k)

\* how often x occurs in s
Count(s, x) == Cardinality({i \in DOMAIN s : s[i] = x})

NonBlank(file) == \E i \in DOMAIN file : file[i] # " "

\* (file, function) of every call site the file-target step went through
SitesOf(call) ==
    IF call.op = "get_file_targets"
    THEN [i \in DOMAIN call.input |->
            [file |-> call.input[i].functionSourceFile,
             name |-> call.input[i].function_name]]
    ELSE IF call.input = None THEN <<>>
         ELSE [i \in DOMAIN call.input[1] |->
                 [file |-> call.input[1][i].dst_function_source_file,
                  name |-> call.input[1][i].dst_function_name]]

\* the file-target step has run
HasFileTargets ==
    /\ calls # <<>>
    /\ calls[Len(calls)].op \in {"get_file_targets", "_set_file_targets"}

(***************************************************************************)
(* C23                                                                     *)
(***************************************************************************)
\* C23: after the file-target step of either class, the keys of file_targets
\* are the non-blank destination source files of the call sites, each mapped
\* to the set of the destination function names of the call sites with that
\* file; no key is empty or all spaces; without a call tree file_targets is
\* empty
C23_FileTargetsGroupByFile ==
    HasFileTargets =>
        LET call == calls[Len(calls)]
            sites == SitesOf(call)
            file_targets == profiles[1]["file_targets"]
        IN /\ DOMAIN file_targets = {s.file : s \in {x \in Range(sites) : NonBlank(x.file)}}
           /\ \A file \in DOMAIN file_targets :
                 /\ NonBlank(file)
                 /\ file_targets[file] = {s.name : s \in {x \in Range(sites) : x.file = file}}
           /\ call.input = None => DOMAIN file_targets = {}

\* a call tree with a call site of a blank file and two functions of one file
C23_Witness ==
    /\ HasFileTargets
    /\ calls[Len(calls)].op = "_set_file_targets"
    /\ \E s \in Range(SitesOf(calls[Len(calls)])) : s.file = <<" ">>
    /\ \E file \in DOMAIN profiles[1]["file_targets"] :
          profiles[1]["file_targets"][file] = {foo, bar}

(***************************************************************************)
(* C24                                                                     *)
(***************************************************************************)
\* C24 as claimed: data_file_read_calltree returns one node for every line of
\* the call tree section, those of the last depth-run included
C24_Original ==
    HasReturned => Len(calls[1].value) = Len(SectionOf(calls[1].input))

(***************************************************************************)
(* C25                                                                     *)
(***************************************************************************)
\* C25: the list data_file_read_calltree returns is made of the depth-groups
\* of the section, from the first one on, in input order, each one a block
\* holding the nodes of the group with linenumber non-decreasing
C25_GroupsAreSortedBlocks ==
    HasReturned =>
        LET nodes == NodesOf(SectionOf(calls[1].input))
            returned == calls[1].value
        IN /\ Len(returned) <= Len(nodes)
           /\ Len(returned) < Len(nodes) => BeginsGroup(nodes, Len(returned) + 1)
           /\ \A i \in DOMAIN returned :
                 LET a == GroupFirst(nodes, i)
                     b == GroupLast(nodes, i)
                 IN /\ \A k \in a..b :
                          Count(SubSeq(returned, a, b), nodes[k])
                              = Count(SubSeq(nodes, a, b), nodes[k])
                    /\ i < b => returned[i].linenumber <= returned[i + 1].linenumber

\* a depth-group whose two lines come with the larger linenumber first,
\* returned with the smaller one first
C25_Witness ==
    /\ HasReturned
    /\ LET nodes == NodesOf(SectionOf(calls[1].input))
       IN /\ Len(nodes) = 3
          /\ nodes[1].depth = nodes[2].depth
          /\ nodes[3].depth # nodes[2].depth
          /\ nodes[1].linenumber > nodes[2].linenumber
          /\ calls[1].value = <<nodes[2], nodes[1]>>

(***************************************************************************)
(* C26                                                                     *)
(***************************************************************************)
\* C26 as claimed: whatever the tokens of the lines of the call tree section,
\* data_file_read_calltree does not raise, and a line that does not have
\* exactly 3 tokens gives a node with empty source file and linenumber 0
C26_Original ==
    HasRead =>
        /\ calls[1].exc = "none"
        /\ \A line \in Range(SectionOf(calls[1].input)) :
              Len(TokensOf(line)) # 3 =>
                  LET node == curr_node(Remove(line, "\n"))
                  IN /\ node.exc = "none"
                     /\ node.value.functionSourceFile = <<>>
                     /\ node.value.linenumber = 0

(***************************************************************************)
(* C27                                                                     *)
(***************************************************************************)
\* C27: on the empty file, and on a file whose "Call tree" line is followed
\* at once by the terminator line, data_file_read_calltree returns the empty
\* list and does not raise
C27_EmptySectionReturnsEmpty ==
    (/\ HasRead
     /\ \/ calls[1].input = <<>>
        \/ \E i \in DOMAIN calls[1].input :
              /\ calls[1].input[i] = MarkerLine
              /\ i < Len(calls[1].input)
              /\ calls[1].input[i + 1] = TerminatorLine)
        => /\ calls[1].exc = "none"
           /\ calls[1].value = <<>>

\* a file of a line, the "Call tree" line and the terminator line
C27_Witness ==
    /\ HasRead
    /\ Len(calls[1].input) = 3
    /\ calls[1].input[2] = MarkerLine
    /\ calls[1].input[3] = TerminatorLine
    /\ calls[1].exc = "none"
    /\ calls[1].value = <<>>

(***************************************************************************)
(* C28                                                                     *)
(***************************************************************************)
\* the .data file and a wellformed .yaml file with every required key exist
LoadsSuccessfully(data_file) ==
    /\ data_file.data # None
    /\ data_file.yaml # None
    /\ data_file.yaml[1].wellformed
    /\ data_file.yaml[1].document # None
    /\ LET document == data_file.yaml[1].document[1]
       IN /\ {"Fuzzer filename", "All functions"} \subseteq DOMAIN document
          /\ "Elements" \in DOMAIN document["All functions"]

\* C28 as claimed: load_all_profiles gives the profiles of the data files that
\* load successfully; a data file whose artifact is missing, whose YAML is
\* malformed or whose YAML lacks a required key is dropped and does not keep
\* the other data files from being loaded
C28_Original ==
    /\ \A k \in DOMAIN calls : calls[k].exc = "none"
    /\ Len(profiles) = Cardinality({k \in DOMAIN calls : LoadsSuccessfully(calls[k].input)})

====
